---- MODULE Spec2Model ----
(***************************************************************************)
(* Model of Maybe<T> (src/Maybe.h): a container that owns zero or one      *)
(* instance of T through a raw pointer `value` and a std::allocator<T>.    *)
(*                                                                         *)
(* The heap is a finite array of blocks.  alloc.allocate(1) hands out a    *)
(* fresh block; the class never calls alloc.deallocate, so a block is      *)
(* never handed out twice.  alloc.construct / alloc.destroy start and end  *)
(* the lifetime of the instance stored in a block.                         *)
(*                                                                         *)
(* Lines 116 and 140 write `*other` on a Maybe<T>; the class declares no   *)
(* operator*, the expression is read here as the dereference of the        *)
(* instance `other` owns (`*other.value`), the only reading under which    *)
(* the copy operations have a behaviour.                                   *)
(***************************************************************************)
EXTENDS Integers, FiniteSets, Sequences, TLC

\* ---------------------------------------------------------------- bounds
MaxInst == 3            \* blocks the allocator can hand out
MaxVal == 1             \* values of T are 0..MaxVal

Containers == {"c1", "c2", "c3"}
EqContainers == {"c1", "c2"}
Values == 0..MaxVal
Blocks == 1..MaxInst
NULL == 0               \* nullptr
NoArg == "-"

\* Element types the template is instantiated with:
\*   int, long : arithmetic types, == is the built-in comparison
\*   Point     : class with its own  bool operator==(const Point&, const Point&)
\*   Derived   : class without an operator== of its own, derived from a base
\*               that has  bool operator==(const Base&, const Base&)
\*   Opaque    : class with no operator== at all
Types == {"int", "long", "Point", "Derived", "Opaque"}
IsClass(T) == T \in {"Point", "Derived", "Opaque"}

\* The candidate the expression  t == u  has apart from Maybe_Tests' fallback:
\* "builtin", "exact" (parameters bind without conversion), "converting"
\* (viable only through a derived-to-base conversion of the operands), "none".
RealEq(T, U) ==
    IF ~IsClass(T) /\ ~IsClass(U) THEN "builtin"
    ELSE IF T = "Point" /\ U = "Point" THEN "exact"
    ELSE IF T = "Derived" /\ U = "Derived" THEN "converting"
    ELSE "none"

\* t == u compiles at the point of use (outside namespace Maybe_Tests).
Comparable(T, U) == RealEq(T, U) # "none"

\* The comparison of the two element values, where it exists.
ValueEq(x, y) == x = y

VARIABLES
    ctype,      \* ctype[c]: the element type T of container c (static)
    live,       \* live[c]: c has been constructed and not yet destroyed
    value,      \* value[c]: the member `T* value` (NULL or a block)
    heap,       \* heap[p]: the block p and the instance in it
    ret         \* what the last operation was and what it returned

vars == <<ctype, live, value, heap, ret>>

\* --------------------------------------------------------------- the heap
FreeBlock == [st |-> "free", val |-> 0, destroys |-> 0]

HasRoom(h) == \E p \in Blocks : h[p].st = "free"

\* alloc.allocate(1): a block never handed out before
Allocate(h) == CHOOSE p \in Blocks :
                   h[p].st = "free" /\ \A q \in Blocks : q < p => h[q].st # "free"

\* a construct that value-initialises the instance and drops its argument
Construct_Default(h, p, v) ==
    [h EXCEPT ![p] = [st |-> "constructed", val |-> 0, destroys |-> @.destroys]]

\* alloc.construct(p, v)
Construct(h, p, v) ==
    [h EXCEPT ![p] = [st |-> "constructed", val |-> v, destroys |-> @.destroys]]

\* alloc.destroy(p): runs ~T() on the instance; the block is not given back
Destroy(h, p) ==
    [h EXCEPT ![p] = [st |-> "destroyed", val |-> 0,
                      destroys |-> IF @.destroys < 2 THEN @.destroys + 1 ELSE 2]]

\* The blocks alloc.allocate has handed out and the class has not given back:
\* the class calls alloc.deallocate nowhere, so a block stays outstanding
\* after alloc.destroy.
Outstanding(h) == {p \in Blocks : h[p].st # "free"}

\* The values a read of *p can produce: the instance's value while it is
\* constructed, anything once its lifetime has ended (undefined behaviour).
ReadValues(h, p) == IF h[p].st = "constructed" THEN {h[p].val} ELSE Values

\* ------------------------------------------------------------- observers
\* ret: the operation (op) last applied to container c (and o), with what a
\* caller or a test harness sees of it: the boolean result (res), whether it
\* threw null_maybe_exception (raised), the instance it returned or released
\* (inst), the value read or written (val), whether it read an instance whose
\* lifetime had ended (uaf), the containers it extracted from (ext).
NoRet == [op |-> "none", c |-> NoArg, o |-> NoArg, res |-> FALSE,
          raised |-> FALSE, inst |-> NULL, val |-> 0, uaf |-> FALSE, ext |-> {}]

Did(op, c, o) == [NoRet EXCEPT !.op = op, !.c = c, !.o = o]

\* operator bool() const
OperatorBool(val, c) == val[c] # NULL

\* operator() without the emptiness test
OperatorCall_NoCheck(val, h, c) ==
    [raised |-> FALSE, inst |-> val[c],
     val |-> IF val[c] # NULL THEN h[val[c]].val ELSE 0]

\* T& operator()() const
OperatorCall(val, h, c) ==
    IF OperatorBool(val, c)
    THEN [raised |-> FALSE, inst |-> val[c], val |-> h[val[c]].val]
    ELSE [raised |-> TRUE, inst |-> NULL, val |-> 0]


\* ---------------------------------------------------------------- equality
\* std::is_convertible in the place of std::is_same
IsSame_Convertible(T, U) == T = U \/ (~IsClass(T) /\ ~IsClass(U))

\* std::is_same<T, oT>::value
IsSame(T, U) == T = U

\* decltype(*(T*)(0) == *(Arg*)(0)) as resolved inside namespace Maybe_Tests,
\* where the fallback  template<T, Arg> No operator==(const T&, const Arg&)
\* is a candidate whenever an operand has class type.  The fallback binds both
\* operands without conversion; a non-template candidate that binds them
\* without conversion too is preferred to it, one that needs a conversion
\* is not.
ResolvedEqType(T, Arg) ==
    IF ~IsClass(T) /\ ~IsClass(Arg) THEN "bool"
    ELSE IF RealEq(T, Arg) = "exact" THEN "bool"
    ELSE "No"

\* Maybe_Tests::EqualExists<T, Arg>::value
EqualExists(T, Arg) == ResolvedEqType(T, Arg) # "No"

\* a fallback overload that answers true
DoEqualFallback_True == [res |-> TRUE, ext |-> {}, raised |-> FALSE]

\* the fallback overload of doEqualComparison (EqualExists is false)
DoEqualFallback == [res |-> FALSE, ext |-> {}, raised |-> FALSE]

\* doEqualComparison, both overloads; ext is the set of containers whose
\* value was extracted
doEqualComparison(ct, val, h, a, b) ==
    IF EqualExists(ct[a], ct[b])
    THEN LET x == OperatorCall(val, h, a)
             y == OperatorCall(val, h, b)
         IN  [res |-> ~x.raised /\ ~y.raised /\ ValueEq(x.val, y.val),
              ext |-> {a, b},
              raised |-> x.raised \/ y.raised]
    ELSE DoEqualFallback

\* bool operator==(const Maybe<oT>& other) const
OperatorEq(ct, val, h, a, b) ==
    IF (OperatorBool(val, a) /\ ~OperatorBool(val, b))
         \/ (~OperatorBool(val, a) /\ OperatorBool(val, b))
    THEN [res |-> FALSE, ext |-> {}, raised |-> FALSE]
    ELSE IF ~OperatorBool(val, a) /\ ~OperatorBool(val, b)
    THEN [res |-> IsSame(ct[a], ct[b]), ext |-> {}, raised |-> FALSE]
    ELSE doEqualComparison(ct, val, h, a, b)

\* bool operator!=(const Maybe<oT>& other) const
OperatorNeq(ct, val, h, a, b) ==
    LET e == OperatorEq(ct, val, h, a, b)
    IN  [e EXCEPT !.res = ~e.res]

\* ------------------------------------------------------- method fragments
\* a release that forgets alloc.destroy
Release_Never(h, val, c) == h

\* if (value != nullptr) alloc.destroy(value);
Release(h, val, c) == IF val[c] # NULL THEN Destroy(h, val[c]) ELSE h

\* a move that forgets  other.value = nullptr
MoveValue_KeepSource(val, c, o) == [val EXCEPT ![c] = val[o]]

\* value = other.value; other.value = nullptr;
MoveValue(val, c, o) == [[val EXCEPT ![c] = val[o]] EXCEPT ![o] = NULL]

\* a copy that takes the source's pointer instead of a block of its own
CopyTarget_Shallow(h, val, o) == val[o]

\* value = alloc.allocate(1);   (the copy's own block)
CopyTarget(h, val, o) == Allocate(h)

\* an assignment that leaves the owned instance as it was
AssignInto_Forget(h, p, v) == h

\* an assignment that destroys the owned instance and constructs it again
AssignInto_Reconstruct(h, p, v) == Construct(Destroy(h, p), p, v)

\* *value = other;
AssignInto(h, p, v) == [h EXCEPT ![p].val = v]

\* a null assignment that forgets  value = null_p
NullValue_Keep(val, c) == val

\* value = null_p;
NullValue(val, c) == [val EXCEPT ![c] = NULL]

\* ------------------------------------------------------------ construction
\* Maybe<T>(const Ts&... args)
ValueCtor(c, v) ==
    /\ ~live[c]
    /\ HasRoom(heap)
    /\ LET p == Allocate(heap)
       IN  /\ value' = [value EXCEPT ![c] = p]
           /\ heap' = Construct(heap, p, v)
    /\ live' = [live EXCEPT ![c] = TRUE]
    /\ ret' = Did("valueCtor", c, NoArg)
    /\ UNCHANGED ctype

\* Maybe<T>()
DefaultCtor(c) ==
    /\ ~live[c]
    /\ value' = [value EXCEPT ![c] = NULL]
    /\ live' = [live EXCEPT ![c] = TRUE]
    /\ ret' = Did("defaultCtor", c, NoArg)
    /\ UNCHANGED <<ctype, heap>>

\* Maybe<T>(const std::nullptr_t& null_p)
NullCtor(c) ==
    /\ ~live[c]
    /\ value' = NullValue(value, c)
    /\ live' = [live EXCEPT ![c] = TRUE]
    /\ ret' = Did("nullCtor", c, NoArg)
    /\ UNCHANGED <<ctype, heap>>

\* ~Maybe<T>(); the members of a destroyed container no longer exist, its
\* slot is kept at NULL
Dtor(c) ==
    /\ live[c]
    /\ heap' = Release(heap, value, c)
    /\ value' = [value EXCEPT ![c] = NULL]
    /\ live' = [live EXCEPT ![c] = FALSE]
    /\ ret' = [Did("dtor", c, NoArg) EXCEPT !.inst = value[c]]
    /\ UNCHANGED ctype

\* Maybe<T>(const Maybe<T>& other)
CopyCtor(c, o) ==
    /\ ~live[c] /\ live[o] /\ c # o /\ ctype[c] = ctype[o]
    /\ IF value[o] # NULL
       THEN /\ HasRoom(heap)
            /\ \E v \in ReadValues(heap, value[o]) :
                 LET p == CopyTarget(heap, value, o)
                 IN  /\ value' = [value EXCEPT ![c] = p]
                     /\ heap' = Construct(heap, p, v)
            /\ ret' = [Did("copyCtor", c, o) EXCEPT
                          !.uaf = heap[value[o]].st # "constructed"]
       ELSE /\ value' = [value EXCEPT ![c] = NULL]
            /\ heap' = heap
            /\ ret' = Did("copyCtor", c, o)
    /\ live' = [live EXCEPT ![c] = TRUE]
    /\ UNCHANGED ctype

\* Maybe<T>(Maybe<T>&& other)
MoveCtor(c, o) ==
    /\ ~live[c] /\ live[o] /\ c # o /\ ctype[c] = ctype[o]
    /\ value' = MoveValue(value, c, o)
    /\ live' = [live EXCEPT ![c] = TRUE]
    /\ ret' = Did("moveCtor", c, o)
    /\ UNCHANGED <<ctype, heap>>

\* -------------------------------------------------------------- assignment
\* Maybe<T>& operator=(const Maybe<T>& other); other may be *this
CopyAssign(c, o) ==
    /\ live[c] /\ live[o] /\ ctype[c] = ctype[o]
    /\ LET h1 == Release(heap, value, c)
       IN  IF value[o] # NULL
           THEN /\ HasRoom(h1)
                /\ \E v \in ReadValues(h1, value[o]) :
                     LET p == CopyTarget(h1, value, o)
                     IN  /\ value' = [value EXCEPT ![c] = p]
                         /\ heap' = Construct(h1, p, v)
                /\ ret' = [Did("copyAssign", c, o) EXCEPT
                              !.inst = value[c],
                              !.uaf = h1[value[o]].st # "constructed"]
           ELSE /\ value' = [value EXCEPT ![c] = NULL]
                /\ heap' = h1
                /\ ret' = [Did("copyAssign", c, o) EXCEPT !.inst = value[c]]
    /\ UNCHANGED <<ctype, live>>

\* Maybe<T>& operator=(Maybe<T>&& other); other may be *this
MoveAssign(c, o) ==
    /\ live[c] /\ live[o] /\ ctype[c] = ctype[o]
    /\ heap' = Release(heap, value, c)
    /\ value' = MoveValue(value, c, o)
    /\ ret' = [Did("moveAssign", c, o) EXCEPT !.inst = value[c]]
    /\ UNCHANGED <<ctype, live>>

\* template <typename O> Maybe<T>& operator=(const O& other)
ValueAssign(c, v) ==
    /\ live[c]
    /\ IF value[c] = NULL
       THEN /\ HasRoom(heap)
            /\ LET p == Allocate(heap)
               IN  /\ value' = [value EXCEPT ![c] = p]
                   /\ heap' = Construct(heap, p, v)
       ELSE /\ heap' = AssignInto(heap, value[c], v)
            /\ value' = value
    /\ ret' = Did("valueAssign", c, NoArg)
    /\ UNCHANGED <<ctype, live>>

\* Maybe<T>& operator=(const std::nullptr_t& null_p)
NullAssign(c) ==
    /\ live[c]
    /\ heap' = Release(heap, value, c)
    /\ value' = NullValue(value, c)
    /\ ret' = [Did("nullAssign", c, NoArg) EXCEPT !.inst = value[c]]
    /\ UNCHANGED <<ctype, live>>

\* ------------------------------------------------------------ observation
\* a presence test that answers the opposite
Bool_Inverted(c) ==
    /\ live[c]
    /\ ret' = [Did("bool", c, NoArg) EXCEPT !.res = ~OperatorBool(value, c)]
    /\ UNCHANGED <<ctype, live, value, heap>>

\* if (m) ...
Bool(c) ==
    /\ live[c]
    /\ ret' = [Did("bool", c, NoArg) EXCEPT !.res = OperatorBool(value, c)]
    /\ UNCHANGED <<ctype, live, value, heap>>

\* m()
Call(c) ==
    /\ live[c]
    /\ LET r == OperatorCall(value, heap, c)
       IN  ret' = [Did("call", c, NoArg) EXCEPT
                      !.raised = r.raised, !.inst = r.inst, !.val = r.val]
    /\ UNCHANGED <<ctype, live, value, heap>>

\* an operator() that returns a copy: the write goes to a temporary
WriteThrough_Copy(c, v) ==
    /\ live[c]
    /\ LET r == OperatorCall(value, heap, c)
       IN  ret' = [Did("write", c, NoArg) EXCEPT
                      !.raised = r.raised, !.inst = r.inst, !.val = v]
    /\ UNCHANGED <<ctype, live, value, heap>>

\* m() = v : a write through the reference operator() returns
WriteThrough(c, v) ==
    /\ live[c]
    /\ LET r == OperatorCall(value, heap, c)
       IN  /\ ret' = [Did("write", c, NoArg) EXCEPT
                         !.raised = r.raised, !.inst = r.inst, !.val = v]
           /\ heap' = IF r.raised THEN heap
                      ELSE [heap EXCEPT ![r.inst].val = v]
    /\ UNCHANGED <<ctype, live, value>>

\* a == b
Eq(a, b) ==
    /\ live[a] /\ live[b]
    /\ LET r == OperatorEq(ctype, value, heap, a, b)
       IN  ret' = [Did("eq", a, b) EXCEPT
                      !.res = r.res, !.ext = r.ext, !.raised = r.raised]
    /\ UNCHANGED <<ctype, live, value, heap>>

\* a != b
Neq(a, b) ==
    /\ live[a] /\ live[b]
    /\ LET r == OperatorNeq(ctype, value, heap, a, b)
       IN  ret' = [Did("neq", a, b) EXCEPT
                      !.res = r.res, !.ext = r.ext, !.raised = r.raised]
    /\ UNCHANGED <<ctype, live, value, heap>>

\* ---------------------------------------------------------- specifications
\* Spec: three containers of one element type, every operation of the class.
Init ==
    /\ ctype = [c \in Containers |-> "int"]
    /\ live = [c \in Containers |-> FALSE]
    /\ value = [c \in Containers |-> NULL]
    /\ heap = [p \in Blocks |-> FreeBlock]
    /\ ret = NoRet

Next ==
    \/ \E c \in Containers, v \in Values : ValueCtor(c, v)
    \/ \E c \in Containers : DefaultCtor(c)
    \/ \E c \in Containers : NullCtor(c)
    \/ \E c \in Containers : Dtor(c)
    \/ \E c, o \in Containers : CopyCtor(c, o)
    \/ \E c, o \in Containers : MoveCtor(c, o)
    \/ \E c, o \in Containers : CopyAssign(c, o)
    \/ \E c, o \in Containers : MoveAssign(c, o)
    \/ \E c \in Containers, v \in Values : ValueAssign(c, v)
    \/ \E c \in Containers : NullAssign(c)
    \/ \E c \in Containers : Bool(c)
    \/ \E c \in Containers : Call(c)
    \/ \E c \in Containers, v \in Values : WriteThrough(c, v)
    \/ \E a, b \in Containers : Eq(a, b)
    \/ \E a, b \in Containers : Neq(a, b)

Spec == Init /\ [][Next]_vars

\* SpecEq: two default-constructed containers of any two element types,
\* assigned to and compared.
InitEq ==
    /\ ctype \in [Containers -> Types]
    /\ ctype["c3"] = "int"
    /\ live = [c \in Containers |-> c \in EqContainers]
    /\ value = [c \in Containers |-> NULL]
    /\ heap = [p \in Blocks |-> FreeBlock]
    /\ ret = NoRet

NextEq ==
    \/ \E c \in EqContainers, v \in Values : ValueAssign(c, v)
    \/ \E c \in EqContainers : NullAssign(c)
    \/ \E a, b \in EqContainers : Eq(a, b)
    \/ \E a, b \in EqContainers : Neq(a, b)

SpecEq == InitEq /\ [][NextEq]_vars

TypeOK ==
    /\ ctype \in [Containers -> Types]
    /\ live \in [Containers -> BOOLEAN]
    /\ value \in [Containers -> Blocks \cup {NULL}]
    /\ \A p \in Blocks : /\ heap[p].st \in {"free", "constructed", "destroyed"}
                         /\ heap[p].val \in Values
                         /\ heap[p].destroys \in 0..2


\* ------------------------------------------------------------------ claims
Empty(c) == value[c] = NULL
Present(c) == value[c] # NULL
Constructed(p) == heap[p].st = "constructed"
Destroyed(p) == heap[p].st = "destroyed"
Step(op, c, o) == ret'.op = op /\ ret'.c = c /\ ret'.o = o

\* C1: extraction on an Empty container raises null_maybe_exception and leaves
\* the container Empty; extraction on a Present container does not raise and
\* yields the instance the container owns, in every reachable state.
C1_ExtractionRaisesIffEmpty ==
    [][\A c \in Containers :
          Step("call", c, NoArg) =>
             /\ Empty(c) => ret'.raised /\ value'[c] = NULL
             /\ Present(c) => /\ ~ret'.raised
                              /\ ret'.inst = value[c]
                              /\ Constructed(value[c])
                              /\ ret'.val = heap[value[c]].val
                              /\ value'[c] = value[c]
                              /\ heap' = heap]_vars

\* an extraction has raised on a container that is Empty after having
\* released a value
C1_Witness ==
    /\ ret.op = "call" /\ ret.raised
    /\ live[ret.c] /\ Empty(ret.c)
    /\ \E p \in Blocks : Destroyed(p)

C3_DestroyedExactlyOnce ==
    /\ \A p \in Blocks : heap[p].destroys <= 1
    /\ (\A c \in Containers : ~live[c]) =>
          \A p \in Blocks : heap[p].st # "free" =>
                               Destroyed(p) /\ heap[p].destroys = 1

\* the last container has just been destroyed, after instances were released
\* by an assignment and by destructors
C3_Witness ==
    /\ ret.op = "dtor" /\ ret.inst # NULL
    /\ \A c \in Containers : ~live[c]
    /\ Cardinality({p \in Blocks : Destroyed(p)}) >= 3

\* C4: no two distinct live containers point to the same instance.
C4_SingleOwnership ==
    \A c, o \in Containers :
        c # o /\ live[c] /\ live[o] /\ Present(c) => value[c] # value[o]

\* a copy assignment between two containers has left both Present
C4_Witness ==
    /\ ret.op = "copyAssign" /\ ret.c # ret.o
    /\ live[ret.c] /\ live[ret.o]
    /\ Present(ret.c) /\ Present(ret.o)


\* what a move leaves behind when the source is Present: the source Empty,
\* the destination owning the source's instance, that instance untouched and
\* no block newly handed out; when the source is Empty: both Empty
MovedFrom(c, o) ==
    IF Present(o)
    THEN /\ value'[o] = NULL
         /\ value'[c] = value[o]
         /\ heap'[value[o]] = heap[value[o]]
         /\ \A p \in Blocks : heap[p].st = "free" => heap'[p].st = "free"
    ELSE /\ value'[o] = NULL
         /\ value'[c] = NULL

\* C5 as stated: every move construction and move assignment from Present(v)
\* leaves the source Empty and the destination owning the source's instance;
\* from Empty it leaves both Empty.
C5_MoveTransfers_AsStated ==
    [][\A c, o \in Containers :
          Step("moveCtor", c, o) \/ Step("moveAssign", c, o) =>
             MovedFrom(c, o)]_vars

\* C5 amended: the above for a destination distinct from the source; a
\* container move-assigned to itself is left Empty, its value destroyed.
C5_MoveTransfers ==
    [][\A c, o \in Containers :
          Step("moveCtor", c, o) \/ Step("moveAssign", c, o) =>
             IF c # o
             THEN MovedFrom(c, o)
             ELSE /\ value'[c] = NULL
                  /\ Present(c) => heap'[value[c]].st = "destroyed"]_vars

\* a move assignment has replaced the value of a Present destination by the
\* instance of another, Present, source
C5_Witness ==
    /\ ret.op = "moveAssign" /\ ret.c # ret.o
    /\ ret.inst # NULL /\ Destroyed(ret.inst)
    /\ Present(ret.c) /\ Constructed(value[ret.c])
    /\ live[ret.o] /\ Empty(ret.o)

\* C6: a copy from Present(v) leaves the destination Present with a value
\* equal to v in an instance of its own and the source Present(v); a copy from
\* Empty leaves the destination Empty; a later write to the value of one
\* container leaves the values of the other containers as they were.
C6_CopyIsIndependent ==
    [][/\ \A c, o \in Containers :
            Step("copyCtor", c, o) \/ Step("copyAssign", c, o) =>
               IF Present(o)
               THEN /\ value'[c] # NULL
                    /\ value'[c] # value[o]
                    /\ heap'[value'[c]].st = "constructed"
                    /\ heap'[value'[c]].val = heap[value[o]].val
                    /\ value'[o] # NULL
                    /\ heap'[value'[o]].st = "constructed"
                    /\ heap'[value'[o]].val = heap[value[o]].val
               ELSE value'[c] = NULL
       /\ \A c \in Containers :
            Step("write", c, NoArg) \/ Step("valueAssign", c, NoArg) =>
               \A o \in Containers \ {c} :
                  live[o] => /\ value'[o] = value[o]
                             /\ Present(o) => heap'[value[o]] = heap[value[o]]]_vars

\* C7: == is false when exactly one side is Present, and when both are
\* Present and their element types can be compared it is the result of
\* comparing the two owned values.
C7_EqualityComparesValues ==
    [][\A a, b \in Containers :
          Step("eq", a, b) =>
             /\ (Present(a) /\ Empty(b)) \/ (Empty(a) /\ Present(b)) => ~ret'.res
             /\ Present(a) /\ Present(b) /\ Comparable(ctype[a], ctype[b]) =>
                   ret'.res = ValueEq(heap[value[a]].val, heap[value[b]].val)]_vars

\* C8: two Empty containers are equal exactly when their element types are
\* the same type.
C8_EmptyEqualIffSameType ==
    [][\A a, b \in Containers :
          Step("eq", a, b) /\ Empty(a) /\ Empty(b) =>
             /\ ret'.res = (ctype[a] = ctype[b])
             /\ ~ret'.raised]_vars

\* two distinct Empty containers of the comparable types int and long have
\* been compared and found unequal
C8_Witness ==
    /\ ret.op = "eq" /\ ret.c # ret.o /\ ~ret.res
    /\ Empty(ret.c) /\ Empty(ret.o)
    /\ ctype[ret.c] = "int" /\ ctype[ret.o] = "long"

C10_NullAssignEmpties ==
    [][\A c \in Containers :
          Step("nullAssign", c, NoArg) =>
             /\ value'[c] = NULL
             /\ Present(c) => /\ heap'[value[c]].st = "destroyed"
                              /\ heap'[value[c]].destroys = 1
             /\ ~OperatorBool(value', c)
             /\ OperatorCall(value', heap', c).raised]_vars

\* nullptr has been assigned to a container that owned a value
C10_Witness ==
    /\ ret.op = "nullAssign" /\ ret.inst # NULL
    /\ Destroyed(ret.inst)
    /\ live[ret.c] /\ Empty(ret.c)


\* C11: assigning a value v to a container, Empty or Present or just moved
\* from, leaves it Present, and an extraction then yields v.
C11_ValueAssignHolds ==
    [][\A c \in Containers, v \in Values :
          ValueAssign(c, v) =>
             /\ value'[c] # NULL
             /\ heap'[value'[c]].st = "constructed"
             /\ OperatorBool(value', c)
             /\ ~OperatorCall(value', heap', c).raised
             /\ OperatorCall(value', heap', c).val = v]_vars

\* a value other than the one it held has been assigned to a Present
\* container while a moved-from or emptied container stands next to it
C11_Witness ==
    /\ ret.op = "valueAssign"
    /\ live[ret.c] /\ Present(ret.c)
    /\ heap[value[ret.c]].val = MaxVal
    /\ \E p \in Blocks : Destroyed(p)


\* C12: the presence test answers true exactly when the container is Present
\* and changes nothing; on a container that has just been moved from it
\* answers false.
C12_PresenceTest ==
    [][/\ \A c \in Containers :
            Step("bool", c, NoArg) =>
               /\ ret'.res = Present(c)
               /\ ~ret'.raised
               /\ live' = live /\ value' = value /\ heap' = heap
       /\ \A c, o \in Containers :
            c # o /\ (Step("moveCtor", c, o) \/ Step("moveAssign", c, o)) =>
               live'[o] /\ ~OperatorBool(value', o)]_vars

\* the presence test has answered false on a container while another
\* container owns an instance
C12_Witness ==
    /\ ret.op = "bool" /\ ~ret.res
    /\ live[ret.c] /\ Empty(ret.c)
    /\ \E o \in Containers \ {ret.c} : live[o] /\ Present(o)

\* C13: constructing a container from a value v makes it Present, and an
\* extraction right after yields v.
C13_RoundTrip ==
    [][\A c \in Containers, v \in Values :
          ValueCtor(c, v) =>
             /\ live'[c]
             /\ OperatorBool(value', c)
             /\ ~OperatorCall(value', heap', c).raised
             /\ OperatorCall(value', heap', c).val = v]_vars

\* a container has just been constructed from the value MaxVal
C13_Witness ==
    /\ ret.op = "valueCtor"
    /\ live[ret.c] /\ Present(ret.c)
    /\ Constructed(value[ret.c])
    /\ heap[value[ret.c]].val = MaxVal

\* C14: a value assignment to a Present container keeps the owned instance
\* and assigns into it, destroying and constructing nothing; to an Empty
\* container it constructs a new instance.
C14_AssignInPlace ==
    [][\A c \in Containers, v \in Values :
          ValueAssign(c, v) =>
             /\ Present(c) =>
                   /\ value'[c] = value[c]
                   /\ heap'[value[c]].st = "constructed"
                   /\ heap'[value[c]].destroys = heap[value[c]].destroys
                   /\ \A p \in Blocks \ {value[c]} : heap'[p] = heap[p]
             /\ Empty(c) =>
                   /\ value'[c] # NULL
                   /\ heap[value'[c]].st = "free"
                   /\ heap'[value'[c]].st = "constructed"
                   /\ \A p \in Blocks \ {value'[c]} : heap'[p] = heap[p]]_vars

\* a value has been assigned to a container that owns the first block, never
\* destroyed, after a later block was handed out: the assignment found the
\* container Present and kept its instance
C14_Witness ==
    /\ ret.op = "valueAssign"
    /\ live[ret.c] /\ value[ret.c] = 1
    /\ heap[1] = [st |-> "constructed", val |-> MaxVal, destroys |-> 0]
    /\ heap[2].st # "free"

\* C15: extraction hands out the owned instance itself: a value written
\* through it is what a later extraction and comparison of that container
\* see, and the other containers keep their instances and values.
C15_ExtractionAliases ==
    [][\A c \in Containers :
          Step("write", c, NoArg) /\ Present(c) =>
             /\ ~ret'.raised
             /\ ret'.inst = value[c]
             /\ value' = value
             /\ OperatorCall(value', heap', c).inst = value[c]
             /\ OperatorCall(value', heap', c).val = ret'.val
             /\ OperatorEq(ctype, value', heap', c, c).res
             /\ \A o \in Containers \ {c} :
                   /\ live[o] /\ Present(o) => heap'[value[o]] = heap[value[o]]
                   /\ live[o] /\ Present(c) /\ Present(o) =>
                         OperatorEq(ctype, value', heap', c, o).res
                            = (ret'.val = heap[value[o]].val)]_vars

\* a write through the extracted reference has changed the value of one
\* container while another holds a different value
C15_Witness ==
    /\ ret.op = "write" /\ ~ret.raised
    /\ live[ret.c] /\ Present(ret.c)
    /\ heap[value[ret.c]].val = ret.val
    /\ \E o \in Containers \ {ret.c} :
          live[o] /\ Present(o) /\ heap[value[o]].val # ret.val


\* C16: the block of a released value has been given back to the allocator,
\* and once every container has been destroyed no block is outstanding.
C16_NoBlockOutstanding ==
    /\ \A p \in Blocks : Destroyed(p) => p \notin Outstanding(heap)
    /\ (\A c \in Containers : ~live[c]) => Outstanding(heap) = {}

\* C17: copy-assigning a container to itself leaves it as it was: Present
\* with an equal value, or Empty, and copies from no destroyed instance.
C17_SelfCopyAssign ==
    [][\A c \in Containers :
          Step("copyAssign", c, c) =>
             /\ ~ret'.uaf
             /\ Empty(c) => value'[c] = NULL
             /\ Present(c) => /\ value'[c] # NULL
                              /\ heap'[value'[c]].st = "constructed"
                              /\ heap'[value'[c]].val = heap[value[c]].val]_vars

\* container x is in state s2 what it is in state s1: alive or not, Empty or
\* Present, and with the same value
SameContainer(x, l1, v1, h1, l2, v2, h2) ==
    /\ l2[x] = l1[x]
    /\ (v2[x] = NULL) = (v1[x] = NULL)
    /\ v1[x] # NULL /\ v2[x] # NULL =>
          h2[v2[x]].st = h1[v1[x]].st /\ h2[v2[x]].val = h1[v1[x]].val

\* C18: an operation changes the container it is invoked on and, for a move,
\* its source, and nothing else: copy construction, copy assignment, ==, !=,
\* the presence test and extraction leave their source or other operand as it
\* was, and no operation changes a container that is not an operand.
C18_Frame ==
    [][/\ \A x \in Containers :
            x # ret'.c /\ x # ret'.o =>
               /\ SameContainer(x, live, value, heap, live', value', heap')
               /\ value'[x] = value[x]
       /\ ret'.op \in {"copyCtor", "copyAssign", "eq", "neq"} =>
               SameContainer(ret'.o, live, value, heap, live', value', heap')
       /\ ret'.op \in {"eq", "neq", "bool", "call"} =>
               /\ SameContainer(ret'.c, live, value, heap, live', value', heap')
               /\ value' = value /\ heap' = heap /\ live' = live]_vars

\* C19: == is symmetric, a == a is true for every container whose element
\* type has an equality comparison (and for every Empty container), and !=
\* is the negation of ==.
C19_EqualityLaws ==
    [][\A a, b \in Containers :
          /\ Step("eq", a, b) =>
                /\ ret'.res = OperatorEq(ctype, value, heap, b, a).res
                /\ a = b /\ (Empty(a) \/ Comparable(ctype[a], ctype[a])) => ret'.res
          /\ Step("neq", a, b) =>
                ret'.res = ~OperatorEq(ctype, value, heap, a, b).res]_vars

====
